---- MODULE Spec2Model ----
(***************************************************************************)
(* Model of ironbar's sway event bridge (src/clients/compositor/sway.rs),  *)
(* of the NetworkManager state decision (src/clients/networkmanager.rs)    *)
(* and of the network module's controller (src/modules/networkmanager.rs). *)
(*                                                                         *)
(* Spec      the Client: add_listener_type callers, the Dispatcher tasks   *)
(*           they spawn, the sway source and the workspace receivers.      *)
(* SpecBurst the same operations with one workspace subscriber and a long  *)
(*           run of focus events (the broadcast backlog fills up).         *)
(* SpecConv  From<WorkspaceEvent> for WorkspaceUpdate on enumerated events.*)
(* SpecNet   determine_state on enumerated inputs.                         *)
(* SpecFault Spec with a workspace event the conversion panics on.         *)
(* SpecNm    the network module's controller task                          *)
(*           (src/modules/networkmanager.rs) and the bus object it reads.  *)
(* SpecNetBoth determine_state and the module's get_network_state on the  *)
(*           same enumerated inputs.                                      *)
(***************************************************************************)
EXTENDS Integers, Sequences, FiniteSets, TLC

VARIABLES
    pc,           \* caller -> position inside its current call
    call,         \* caller -> locals of the call: op, event_type, chan, handle
    result,       \* caller -> result of its last add_listener_type call
    ncalls,       \* number of calls the callers have started so far
    lock_owner,   \* holder of the task_state Mutex (0 = free)
    join_handle,  \* TaskState.join_handle (0 = None, else a task id)
    listeners,    \* TaskState.listeners: sequence of (EventType, callback)
    tasks,        \* task id -> Dispatcher task: pc, abort flag, captured values
    stream,       \* task id -> items sway has written to that subscription
    conns,        \* open connections to sway (0 = Client.client, t = task t's)
    focused,      \* sway's focused workspace
    emitted,      \* every event sway has emitted, in order
    invoked,      \* every callback invocation, in order
    chans,        \* workspace broadcast channels with their one receive end
    nopen,        \* number of Connection::new attempts of add_listener_type
    gap,          \* per emitted event: emitted between a task's end and the next subscribe
    conv,         \* SpecConv: the event under conversion and the outcome
    net,          \* SpecNet: the inputs of determine_state and the outcome
    nm            \* SpecNm: the network module's controller and its bus

vars == <<pc, call, result, ncalls, lock_owner, join_handle, listeners, tasks,
          stream, conns, focused, emitted, invoked, chans, nopen, gap,
          conv, net, nm>>

swayVars == <<pc, call, result, ncalls, lock_owner, join_handle, listeners,
              tasks, stream, conns, focused, emitted, invoked, chans, nopen,
              gap>>

-----------------------------------------------------------------------------
(* Bounds of the model *)

NumCallers == 2
MaxCalls == 3
MaxEvents == 2
NumWorkspaces == 2
BurstEvents == 17
MaxSignals == 3

(* Program constant: channel(16) *)
ChannelCapacity == 16

Callers == 1..NumCallers
TaskIds == 1..MaxCalls
ChanIds == 1..MaxCalls
WorkspaceIds == 1..NumWorkspaces

-----------------------------------------------------------------------------
(* Raw sway values and the workspace domain types *)

None == "None"

\* swayipc Node as far as the conversions read it; name, output and visible
\* are Options.
NoNode == [id |-> 0, name |-> None, output |-> None, focused |-> FALSE, visible |-> None]

WsName(w) == IF w = 1 THEN "web" ELSE "term"

SwayNode(w, isFocused) ==
    [id |-> w, name |-> WsName(w), output |-> "eDP-1", focused |-> isFocused,
     visible |-> None]

\* swayipc Workspace (reply of get_workspaces): visible is a plain bool.
SwayWorkspace(w, isFocused) ==
    [id |-> w, name |-> WsName(w), output |-> "eDP-1", focused |-> isFocused,
     visible |-> IF isFocused THEN "true" ELSE "false"]

UnwrapOrDefault(s) == IF s = None THEN "" ELSE s

VisibilityFromNode(node) ==
    IF node.focused THEN "Focused"
    ELSE IF (IF node.visible = None THEN FALSE ELSE node.visible = "true") THEN "Visible"
    ELSE "Hidden"

VisibilityFromWorkspace(workspace) ==
    IF workspace.focused THEN "Focused"
    ELSE IF workspace.visible = "true" THEN "Visible"
    ELSE "Hidden"

WorkspaceFromNode(node) ==
    [id |-> node.id, name |-> UnwrapOrDefault(node.name),
     monitor |-> UnwrapOrDefault(node.output), visibility |-> VisibilityFromNode(node)]

WorkspaceFromSway(workspace) ==
    [id |-> workspace.id, name |-> workspace.name, monitor |-> workspace.output,
     visibility |-> VisibilityFromWorkspace(workspace)]

NoWorkspace == [id |-> 0, name |-> "", monitor |-> "", visibility |-> None]

\* WorkspaceUpdate values; unused fields hold NoWorkspace / 0 / <<>>.
Update(tag, ws, old, id, all) == [tag |-> tag, ws |-> ws, old |-> old, id |-> id, all |-> all]

UpdInit(all) == Update("Init", NoWorkspace, NoWorkspace, 0, all)
UpdAdd(ws) == Update("Add", ws, NoWorkspace, 0, <<>>)
UpdRemove(id) == Update("Remove", NoWorkspace, NoWorkspace, id, <<>>)
UpdFocus(old, new) == Update("Focus", new, old, 0, <<>>)
UpdMove(ws) == Update("Move", ws, NoWorkspace, 0, <<>>)
UpdUnknown == Update("Unknown", NoWorkspace, NoWorkspace, 0, <<>>)
Panic == Update("panic", NoWorkspace, NoWorkspace, 0, <<>>)

\* Variant: every change kind expects the current workspace.
WorkspaceUpdateFrom_ExpectAll(event) ==
    IF event.current = NoNode THEN Panic
    ELSE CASE event.change = "Init" -> UpdAdd(WorkspaceFromNode(event.current))
           [] event.change = "Empty" -> UpdRemove(event.current.id)
           [] event.change = "Focus" ->
                UpdFocus(IF event.old = NoNode THEN NoWorkspace
                         ELSE WorkspaceFromNode(event.old),
                         WorkspaceFromNode(event.current))
           [] event.change = "Move" -> UpdMove(WorkspaceFromNode(event.current))
           [] OTHER -> UpdUnknown

\* impl From<WorkspaceEvent> for WorkspaceUpdate; expect() on a missing
\* current workspace panics.
WorkspaceUpdateFrom(event) ==
    CASE event.change = "Init" ->
            IF event.current = NoNode THEN Panic
            ELSE UpdAdd(WorkspaceFromNode(event.current))
      [] event.change = "Empty" ->
            IF event.current = NoNode THEN Panic
            ELSE UpdRemove(event.current.id)
      [] event.change = "Focus" ->
            IF event.current = NoNode THEN Panic
            ELSE UpdFocus(IF event.old = NoNode THEN NoWorkspace
                          ELSE WorkspaceFromNode(event.old),
                          WorkspaceFromNode(event.current))
      [] event.change = "Move" ->
            IF event.current = NoNode THEN Panic
            ELSE UpdMove(WorkspaceFromNode(event.current))
      [] OTHER -> UpdUnknown

\* Event variants to EventType; any other variant hits todo!().
sway_event_to_event_type(event) ==
    IF event.variant \in {"Workspace", "Mode", "Window", "BarConfigUpdate",
                          "Binding", "Shutdown", "Tick", "BarStateUpdate", "Input"}
    THEN event.variant
    ELSE "todo"

-----------------------------------------------------------------------------
(* tokio broadcast channel with one receive end *)

NoChan ==
    [created |-> FALSE, buf |-> <<>>, sent |-> 0, next |-> 0, got |-> <<>>,
     lagged |-> 0, query |-> <<>>]

\* Variant: with the backlog full the new value is dropped.
BroadcastSend_DropNewest(ch, msg) ==
    [ch EXCEPT !.buf = IF Len(ch.buf) >= ChannelCapacity
                       THEN ch.buf
                       ELSE Append(ch.buf, msg),
               !.sent = ch.sent + 1]

\* Sender::send: the value takes the next slot; with the backlog full the
\* oldest retained value is overwritten.
BroadcastSend(ch, msg) ==
    [ch EXCEPT !.buf = IF Len(ch.buf) >= ChannelCapacity
                       THEN Append(Tail(ch.buf), msg)
                       ELSE Append(ch.buf, msg),
               !.sent = ch.sent + 1]

\* Position of the oldest retained value.
ChanBase(ch) == ch.sent - Len(ch.buf)

\* Receiver::recv when it does not have to wait: a receiver whose next value
\* was overwritten gets Lagged and is moved to the oldest retained value.
BroadcastRecv(ch) ==
    IF ch.next < ChanBase(ch)
    THEN [ch EXCEPT !.next = ChanBase(ch), !.lagged = ch.lagged + (ChanBase(ch) - ch.next)]
    ELSE [ch EXCEPT !.next = ch.next + 1,
                    !.got = Append(ch.got, ch.buf[ch.next - ChanBase(ch) + 1])]

-----------------------------------------------------------------------------
(* Dispatcher task values *)

NoEvent == [id |-> 0, variant |-> None, change |-> None, old |-> NoNode, current |-> NoNode]
ErrorItem == [id |-> 0, variant |-> "Err", change |-> None, old |-> NoNode, current |-> NoNode]

\* nreg is the length of the listeners the task was spawned with; it is kept
\* when the task has ended.
NoTask ==
    [pc |-> "unborn", abort |-> FALSE, event_types |-> <<>>, listeners |-> <<>>,
     nreg |-> 0, cur |-> NoEvent, closed |-> FALSE]

\* A task that has not ended: its future, with everything it captured (the
\* connection, the Arc clone of listeners), still exists.
Alive == {"spawned", "reading", "dispatch"}
Ended == {"ok", "err", "cancelled", "panicked"}

\* JoinHandle::await completes once the task has ended.
JoinHandleReady(t) == tasks[t].pc \in Ended

\* Arc::strong_count(listeners): TaskState's own Arc and one clone per task
\* whose future still exists.
ArcStrongCount == 1 + Cardinality({t \in TaskIds : tasks[t].pc \in Alive})

SeqToSet(s) == {s[i] : i \in 1..Len(s)}

\* Variant: only the kind registered last is subscribed to.
MapEventTypes_LastOnly(ls) ==
    IF ls = <<>> THEN <<>> ELSE <<ls[Len(ls)].event_type>>

RECURSIVE MapEventTypes(_)
\* listeners.iter().map(|(t, _)| *t).collect::<Vec<_>>()
MapEventTypes(ls) ==
    IF ls = <<>> THEN <<>> ELSE <<ls[1].event_type>> \o MapEventTypes(Tail(ls))

NextTaskId == Cardinality({t \in TaskIds : tasks[t].pc # "unborn"}) + 1
NextChanId == Cardinality({h \in ChanIds : chans[h].created}) + 1

RECURSIVE GetWorkspaces(_)
\* Reply of get_workspaces: workspaces 1..n in order.
GetWorkspaces(n) ==
    IF n = 0 THEN <<>> ELSE Append(GetWorkspaces(n - 1), SwayWorkspace(n, n = focused))

RECURSIVE MapWorkspaceFrom(_)
\* workspaces.into_iter().map(Workspace::from).collect()
MapWorkspaceFrom(ws) ==
    IF ws = <<>> THEN <<>> ELSE <<WorkspaceFromSway(ws[1])>> \o MapWorkspaceFrom(Tail(ws))

-----------------------------------------------------------------------------
(* Callers: keymode's add_listener and subscribe_workspace_change *)

NoCall == [op |-> None, event_type |-> None, cb |-> None, chan |-> 0, handle |-> 0]

\* A call returns res to its caller. subscribe_workspace_change expects Ok
\* ("to add listener") and panics otherwise.
Return(c, res) ==
    /\ result' = [result EXCEPT ![c] = res]
    /\ pc' = [pc EXCEPT ![c] = IF call[c].op = "subscribe_workspace_change" /\ res = "Err"
                                 THEN "panicked" ELSE "idle"]
    /\ call' = [call EXCEPT ![c] = NoCall]

\* add_listener::<ModeEvent>(..) as keymode's spawn_controller calls it.
AddListener(c, maxCalls) ==
    /\ pc[c] = "idle"
    /\ ncalls < maxCalls
    /\ ncalls' = ncalls + 1
    /\ call' = [call EXCEPT ![c] = [op |-> "add_listener", event_type |-> "Mode",
                                    cb |-> "mode", chan |-> 0, handle |-> 0]]
    /\ pc' = [pc EXCEPT ![c] = "lock"]
    /\ UNCHANGED <<result, lock_owner, join_handle, listeners, tasks, stream, conns,
                   focused, emitted, invoked, chans, conv, net,
                   nm, nopen, gap>>

\* subscribe_workspace_change up to the add_listener call: channel(16), the
\* get_workspaces query on Client.client, the Init message.
SubscribeWorkspaceChange(c, maxCalls) ==
    /\ pc[c] = "idle"
    /\ ncalls < maxCalls
    /\ ncalls' = ncalls + 1
    /\ \E ok \in BOOLEAN :
         IF ok
         THEN LET h == NextChanId
                  workspaces == GetWorkspaces(NumWorkspaces)
                  event == UpdInit(MapWorkspaceFrom(workspaces))
              IN  /\ chans' = [chans EXCEPT ![h] =
                        BroadcastSend([NoChan EXCEPT !.created = TRUE,
                                                     !.query = workspaces], event)]
                  /\ call' = [call EXCEPT ![c] =
                        [op |-> "subscribe_workspace_change", event_type |-> "Workspace",
                         cb |-> "workspace", chan |-> h, handle |-> 0]]
                  /\ pc' = [pc EXCEPT ![c] = "lock"]
         ELSE \* expect("to get workspaces")
              /\ pc' = [pc EXCEPT ![c] = "panicked"]
              /\ UNCHANGED <<chans, call>>
    /\ UNCHANGED <<result, lock_owner, join_handle, listeners, tasks, stream, conns,
                   focused, emitted, invoked, conv, net,
                   nm, nopen, gap>>

-----------------------------------------------------------------------------
(* Client::add_listener_type, one action per stretch between await points *)

\* Variant: the call does not wait for the task_state Mutex.
AddListenerLock_NoMutex(c) ==
    /\ pc[c] = "lock"
    /\ lock_owner' = c
    /\ call' = [call EXCEPT ![c].handle = join_handle]
    /\ join_handle' = 0
    /\ tasks' = IF join_handle # 0 /\ tasks[join_handle].pc \in Alive
                THEN [tasks EXCEPT ![join_handle].abort = TRUE]
                ELSE tasks
    /\ pc' = [pc EXCEPT ![c] = "await_handle"]
    /\ UNCHANGED <<result, ncalls, listeners, stream, conns, focused, emitted,
                   invoked, chans, conv, net,
                   nm, nopen, gap>>

\* self.task_state.lock().await; join_handle.take(); handle.abort()
AddListenerLock(c) ==
    /\ pc[c] = "lock"
    /\ lock_owner = 0
    /\ lock_owner' = c
    /\ call' = [call EXCEPT ![c].handle = join_handle]
    /\ join_handle' = 0
    /\ tasks' = IF join_handle # 0 /\ tasks[join_handle].pc \in Alive
                THEN [tasks EXCEPT ![join_handle].abort = TRUE]
                ELSE tasks
    /\ pc' = [pc EXCEPT ![c] = "await_handle"]
    /\ UNCHANGED <<result, ncalls, listeners, stream, conns, focused, emitted,
                   invoked, chans, conv, net,
                   nm, nopen, gap>>

\* Variant: the aborted task is not awaited before Arc::get_mut.
AddListenerPush_NoJoin(c) ==
    /\ pc[c] = "await_handle"
    /\ tasks' = IF call[c].handle # 0 /\ JoinHandleReady(call[c].handle)
                THEN [tasks EXCEPT ![call[c].handle].pc = "joined"]
                ELSE tasks
    /\ IF ArcStrongCount = 1
       THEN /\ listeners' = Append(listeners,
                    [event_type |-> call[c].event_type, cb |-> call[c].cb,
                     chan |-> call[c].chan])
            /\ pc' = [pc EXCEPT ![c] = "connect"]
            /\ UNCHANGED <<result, call, lock_owner>>
       ELSE /\ Return(c, "Err")
            /\ lock_owner' = 0
            /\ UNCHANGED listeners
    /\ UNCHANGED <<ncalls, join_handle, stream, conns, focused, emitted,
                   invoked, chans, conv, net,
                   nm, nopen, gap>>

\* Variant: the aborted task is not awaited and the entry is pushed whoever
\* else holds the listeners.
AddListenerPush_NoAwait(c) ==
    /\ pc[c] = "await_handle"
    /\ tasks' = IF call[c].handle # 0 /\ JoinHandleReady(call[c].handle)
                THEN [tasks EXCEPT ![call[c].handle].pc = "joined"]
                ELSE tasks
    /\ listeners' = Append(listeners,
            [event_type |-> call[c].event_type, cb |-> call[c].cb, chan |-> call[c].chan])
    /\ pc' = [pc EXCEPT ![c] = "connect"]
    /\ UNCHANGED <<result, call, lock_owner, ncalls, join_handle, stream, conns, focused,
                   emitted, invoked, chans, conv, net,
                   nm, nopen, gap>>

\* Variant: the Mutex guard is released once the entry is pushed.
AddListenerPush_Unlock(c) ==
    /\ pc[c] = "await_handle"
    /\ call[c].handle # 0 => JoinHandleReady(call[c].handle)
    /\ tasks' = IF call[c].handle # 0 /\ JoinHandleReady(call[c].handle)
                THEN [tasks EXCEPT ![call[c].handle].pc = "joined"]
                ELSE tasks
    /\ lock_owner' = 0
    /\ IF ArcStrongCount = 1
       THEN /\ listeners' = Append(listeners,
                    [event_type |-> call[c].event_type, cb |-> call[c].cb,
                     chan |-> call[c].chan])
            /\ pc' = [pc EXCEPT ![c] = "connect"]
            /\ UNCHANGED <<result, call>>
       ELSE /\ Return(c, "Err")
            /\ UNCHANGED listeners
    /\ UNCHANGED <<ncalls, join_handle, stream, conns, focused, emitted,
                   invoked, chans, conv, net,
                   nm, nopen, gap>>

\* let _ = handle.await; Arc::get_mut(listeners).ok_or_else(..)?; push
\* The awaited task's output is discarded with its handle.
AddListenerPush(c) ==
    /\ pc[c] = "await_handle"
    /\ call[c].handle # 0 => JoinHandleReady(call[c].handle)
    /\ tasks' = IF call[c].handle # 0 /\ JoinHandleReady(call[c].handle)
                THEN [tasks EXCEPT ![call[c].handle].pc = "joined"]
                ELSE tasks
    /\ IF ArcStrongCount = 1
       THEN /\ listeners' = Append(listeners,
                    [event_type |-> call[c].event_type, cb |-> call[c].cb,
                     chan |-> call[c].chan])
            /\ pc' = [pc EXCEPT ![c] = "connect"]
            /\ UNCHANGED <<result, call, lock_owner>>
       ELSE \* "Failed to get mutable reference to listeners"
            /\ Return(c, "Err")
            /\ lock_owner' = 0
            /\ UNCHANGED listeners
    /\ UNCHANGED <<ncalls, join_handle, stream, conns, focused, emitted,
                   invoked, chans, conv, net,
                   nm, nopen, gap>>

\* Variant: a call whose Connection::new fails puts the handle it took back.
AddListenerSpawn_KeepHandle(c) ==
    /\ pc[c] = "connect"
    /\ \E ok \in BOOLEAN :
         IF ok
         THEN LET t == NextTaskId
              IN  /\ tasks' = [tasks EXCEPT ![t] =
                        [NoTask EXCEPT !.pc = "spawned",
                                       !.event_types = MapEventTypes(listeners),
                                       !.listeners = listeners,
                                       !.nreg = Len(listeners)]]
                  /\ conns' = conns \cup {t}
                  /\ join_handle' = t
                  /\ Return(c, "Ok")
         ELSE /\ Return(c, "Err")
              /\ join_handle' = call[c].handle
              /\ UNCHANGED <<tasks, conns>>
    /\ nopen' = nopen + 1
    /\ lock_owner' = 0
    /\ UNCHANGED <<ncalls, listeners, stream, focused, emitted, invoked, chans, conv, net,
                   nm, gap>>

\* Variant: the new task is given the new entry only.
AddListenerSpawn_OnlyNew(c) ==
    /\ pc[c] = "connect"
    /\ \E ok \in BOOLEAN :
         IF ok
         THEN LET t == NextTaskId
              IN  /\ tasks' = [tasks EXCEPT ![t] =
                        [NoTask EXCEPT !.pc = "spawned",
                                       !.event_types = <<call[c].event_type>>,
                                       !.listeners = <<listeners[Len(listeners)]>>,
                                       !.nreg = 1]]
                  /\ conns' = conns \cup {t}
                  /\ join_handle' = t
                  /\ Return(c, "Ok")
         ELSE /\ Return(c, "Err")
              /\ UNCHANGED <<tasks, conns, join_handle>>
    /\ nopen' = nopen + 1
    /\ lock_owner' = 0
    /\ UNCHANGED <<ncalls, listeners, stream, focused, emitted, invoked, chans, conv, net,
                   nm, gap>>

\* Variant: a call whose Connection::new fails takes its entry back.
AddListenerSpawn_Rollback(c) ==
    /\ pc[c] = "connect"
    /\ \E ok \in BOOLEAN :
         IF ok
         THEN LET t == NextTaskId
              IN  /\ tasks' = [tasks EXCEPT ![t] =
                        [NoTask EXCEPT !.pc = "spawned",
                                       !.event_types = MapEventTypes(listeners),
                                       !.listeners = listeners,
                                       !.nreg = Len(listeners)]]
                  /\ conns' = conns \cup {t}
                  /\ join_handle' = t
                  /\ Return(c, "Ok")
                  /\ UNCHANGED listeners
         ELSE /\ Return(c, "Err")
              /\ listeners' = SubSeq(listeners, 1, Len(listeners) - 1)
              /\ UNCHANGED <<tasks, conns, join_handle>>
    /\ nopen' = nopen + 1
    /\ lock_owner' = 0
    /\ UNCHANGED <<ncalls, stream, focused, emitted, invoked, chans, conv, net,
                   nm, gap>>

\* Variant: a failed Connection::new is tried a second time before the error
\* is returned.
AddListenerSpawn_Retry(c) ==
    /\ pc[c] = "connect"
    /\ \E ok \in BOOLEAN :
         IF ok
         THEN LET t == NextTaskId
              IN  /\ tasks' = [tasks EXCEPT ![t] =
                        [NoTask EXCEPT !.pc = "spawned",
                                       !.event_types = MapEventTypes(listeners),
                                       !.listeners = listeners,
                                       !.nreg = Len(listeners)]]
                  /\ conns' = conns \cup {t}
                  /\ join_handle' = t
                  /\ Return(c, "Ok")
                  /\ nopen' = nopen + 1
         ELSE /\ Return(c, "Err")
              /\ nopen' = nopen + 2
              /\ UNCHANGED <<tasks, conns, join_handle>>
    /\ lock_owner' = 0
    /\ UNCHANGED <<ncalls, listeners, stream, focused, emitted, invoked, chans, conv, net,
                   nm, gap>>

\* Connection::new().await?; event_types; listeners.clone(); spawn; store
AddListenerSpawn(c) ==
    /\ pc[c] = "connect"
    /\ \E ok \in BOOLEAN :
         IF ok
         THEN LET t == NextTaskId
              IN  /\ tasks' = [tasks EXCEPT ![t] =
                        [NoTask EXCEPT !.pc = "spawned",
                                       !.event_types = MapEventTypes(listeners),
                                       !.listeners = listeners,
                                       !.nreg = Len(listeners)]]
                  /\ conns' = conns \cup {t}
                  /\ join_handle' = t
                  /\ Return(c, "Ok")
         ELSE /\ Return(c, "Err")
              /\ UNCHANGED <<tasks, conns, join_handle>>
    /\ nopen' = nopen + 1
    /\ lock_owner' = 0
    /\ UNCHANGED <<ncalls, listeners, stream, focused, emitted, invoked, chans, conv, net,
                   nm, gap>>

-----------------------------------------------------------------------------
(* The Dispatcher task spawned by add_listener_type *)

\* The callback of registry entry e applied to event: the closure of
\* subscribe_workspace_change converts and publishes on its channel, keymode's
\* closure forwards the mode. st carries the channels, the invocation log and
\* whether a callback has panicked.
InvokeCallback(t, i, e, event, st) ==
    LET logged(returned) ==
            Append(st.invoked, [task |-> t, ev |-> event.id, entry |-> i, ok |-> returned])
    IN  IF e.cb = "workspace"
        THEN LET update == WorkspaceUpdateFrom(event)
             IN  IF update = Panic
                 THEN [st EXCEPT !.invoked = logged(FALSE), !.panicked = TRUE]
                 ELSE [st EXCEPT !.invoked = logged(TRUE),
                                 !.chans[e.chan] = BroadcastSend(st.chans[e.chan], update)]
        ELSE [st EXCEPT !.invoked = logged(TRUE)]

RECURSIVE DispatchFrom_Rev(_, _, _, _, _, _)
\* Variant: the entries are visited last to first.
DispatchFrom_Rev(i, t, ty, event, ls, st) ==
    LET j == Len(ls) + 1 - i
    IN  IF i > Len(ls) \/ st.panicked THEN st
        ELSE IF ls[j].event_type = ty
             THEN DispatchFrom_Rev(i + 1, t, ty, event, ls,
                                   InvokeCallback(t, j, ls[j], event, st))
             ELSE DispatchFrom_Rev(i + 1, t, ty, event, ls, st)

RECURSIVE DispatchFrom_FirstOnly(_, _, _, _, _, _)
\* Variant: the loop stops at the first matching entry.
DispatchFrom_FirstOnly(i, t, ty, event, ls, st) ==
    IF i > Len(ls) \/ st.panicked THEN st
    ELSE IF ls[i].event_type = ty
         THEN InvokeCallback(t, i, ls[i], event, st)
         ELSE DispatchFrom_FirstOnly(i + 1, t, ty, event, ls, st)

RECURSIVE DispatchFrom_Isolate(_, _, _, _, _, _)
\* Variant: a panicking callback does not stop the loop.
DispatchFrom_Isolate(i, t, ty, event, ls, st) ==
    IF i > Len(ls) THEN st
    ELSE IF ls[i].event_type = ty
         THEN DispatchFrom_Isolate(i + 1, t, ty, event, ls,
                                   InvokeCallback(t, i, ls[i], event, st))
         ELSE DispatchFrom_Isolate(i + 1, t, ty, event, ls, st)

RECURSIVE DispatchFrom_AllKinds(_, _, _, _, _, _)
\* Variant: every entry is invoked, whatever its event type.
DispatchFrom_AllKinds(i, t, ty, event, ls, st) ==
    IF i > Len(ls) \/ st.panicked THEN st
    ELSE DispatchFrom_AllKinds(i + 1, t, ty, event, ls,
                               InvokeCallback(t, i, ls[i], event, st))

RECURSIVE DispatchFrom(_, _, _, _, _, _)
\* for (t, f) in listeners.iter() { if *t == ty { f(&event); } }
DispatchFrom(i, t, ty, event, ls, st) ==
    IF i > Len(ls) \/ st.panicked THEN st
    ELSE IF ls[i].event_type = ty
         THEN DispatchFrom(i + 1, t, ty, event, ls, InvokeCallback(t, i, ls[i], event, st))
         ELSE DispatchFrom(i + 1, t, ty, event, ls, st)

\* The task's future is dropped with all it captured: the connection (and
\* what sway had written to it) and the Arc clone of listeners.
EndTask(t, how) ==
    /\ tasks' = [tasks EXCEPT ![t] = [NoTask EXCEPT !.pc = how, !.nreg = tasks[t].nreg]]
    /\ conns' = conns \ {t}
    /\ stream' = [stream EXCEPT ![t] = <<>>]

\* client.subscribe(&event_types).await?
TaskSubscribe(t) ==
    /\ tasks[t].pc = "spawned"
    /\ \E ok \in BOOLEAN :
         IF ok
         THEN /\ tasks' = [tasks EXCEPT ![t].pc = "reading"]
              /\ UNCHANGED <<conns, stream>>
         ELSE EndTask(t, "err")
    /\ UNCHANGED <<pc, call, result, ncalls, lock_owner, join_handle, listeners,
                   focused, emitted, invoked, chans, conv, net,
                   nm, nopen, gap>>

\* Variant: the item written last is read first.
TaskNext_Lifo(t) ==
    /\ tasks[t].pc = "reading"
    /\ IF stream[t] # <<>>
       THEN LET item == stream[t][Len(stream[t])]
            IN  IF item = ErrorItem
                THEN EndTask(t, "err")
                ELSE IF sway_event_to_event_type(item) = "todo"
                     THEN EndTask(t, "panicked")
                     ELSE /\ tasks' = [tasks EXCEPT ![t].pc = "dispatch", ![t].cur = item]
                          /\ stream' = [stream EXCEPT ![t] =
                                            SubSeq(stream[t], 1, Len(stream[t]) - 1)]
                          /\ UNCHANGED conns
       ELSE /\ tasks[t].closed
            /\ EndTask(t, "ok")
    /\ UNCHANGED <<pc, call, result, ncalls, lock_owner, join_handle, listeners,
                   focused, emitted, invoked, chans, conv, net,
                   nm, nopen, gap>>

\* Variant: an error item is skipped and the loop goes on.
TaskNext_SkipErr(t) ==
    /\ tasks[t].pc = "reading"
    /\ IF stream[t] # <<>>
       THEN LET item == Head(stream[t])
            IN  IF item = ErrorItem
                THEN /\ stream' = [stream EXCEPT ![t] = Tail(stream[t])]
                     /\ UNCHANGED <<tasks, conns>>
                ELSE IF sway_event_to_event_type(item) = "todo"
                     THEN EndTask(t, "panicked")
                     ELSE /\ tasks' = [tasks EXCEPT ![t].pc = "dispatch", ![t].cur = item]
                          /\ stream' = [stream EXCEPT ![t] = Tail(stream[t])]
                          /\ UNCHANGED conns
       ELSE /\ tasks[t].closed
            /\ EndTask(t, "ok")
    /\ UNCHANGED <<pc, call, result, ncalls, lock_owner, join_handle, listeners,
                   focused, emitted, invoked, chans, conv, net,
                   nm, nopen, gap>>

\* events.next().await; event?; sway_event_to_event_type(&event)
TaskNext(t) ==
    /\ tasks[t].pc = "reading"
    /\ IF stream[t] # <<>>
       THEN LET item == Head(stream[t])
            IN  IF item = ErrorItem
                THEN EndTask(t, "err")
                ELSE IF sway_event_to_event_type(item) = "todo"
                     THEN EndTask(t, "panicked")
                     ELSE /\ tasks' = [tasks EXCEPT ![t].pc = "dispatch", ![t].cur = item]
                          /\ stream' = [stream EXCEPT ![t] = Tail(stream[t])]
                          /\ UNCHANGED conns
       ELSE /\ tasks[t].closed
            /\ EndTask(t, "ok")
    /\ UNCHANGED <<pc, call, result, ncalls, lock_owner, join_handle, listeners,
                   focused, emitted, invoked, chans, conv, net,
                   nm, nopen, gap>>

\* the for loop over listeners for the event just read
TaskDispatch(t) ==
    /\ tasks[t].pc = "dispatch"
    /\ LET st == DispatchFrom(1, t, sway_event_to_event_type(tasks[t].cur), tasks[t].cur,
                              tasks[t].listeners,
                              [chans |-> chans, invoked |-> invoked, panicked |-> FALSE])
       IN  /\ chans' = st.chans
           /\ invoked' = st.invoked
           /\ IF st.panicked
              THEN EndTask(t, "panicked")
              ELSE /\ tasks' = [tasks EXCEPT ![t].pc = "reading", ![t].cur = NoEvent]
                   /\ UNCHANGED <<conns, stream>>
    /\ UNCHANGED <<pc, call, result, ncalls, lock_owner, join_handle, listeners,
                   focused, emitted, conv, net,
                   nm, nopen, gap>>

\* An aborted task is dropped where it is suspended: before subscribe has
\* returned or in events.next().
TaskCancel(t) ==
    /\ tasks[t].abort
    /\ tasks[t].pc \in {"spawned", "reading"}
    /\ EndTask(t, "cancelled")
    /\ UNCHANGED <<pc, call, result, ncalls, lock_owner, join_handle, listeners,
                   focused, emitted, invoked, chans, conv, net,
                   nm, nopen, gap>>

-----------------------------------------------------------------------------
(* The sway source and the receivers *)

\* Variant: the subscription exists as soon as the task is spawned.
Subscribed_AtSpawn(t, ty) ==
    /\ tasks[t].pc \in {"spawned", "reading", "dispatch"}
    /\ ~tasks[t].closed
    /\ ty \in SeqToSet(tasks[t].event_types)

\* A subscription sway writes events of type ty to.
Subscribed(t, ty) ==
    /\ tasks[t].pc \in {"reading", "dispatch"}
    /\ ~tasks[t].closed
    /\ ty \in SeqToSet(tasks[t].event_types)

\* sway writes an event to the subscriptions of its type. gap records for
\* each event whether it was emitted after a task had ended and while no
\* task's subscribe call had completed.
Emit(event) ==
    /\ emitted' = Append(emitted, event)
    /\ gap' = Append(gap, /\ \A t \in TaskIds : tasks[t].pc \notin {"reading", "dispatch"}
                          /\ \E t \in TaskIds : tasks[t].pc \in Ended \cup {"joined"})
    /\ stream' = [t \in TaskIds |->
                    IF Subscribed(t, event.variant) THEN Append(stream[t], event)
                    ELSE stream[t]]

\* The user focuses another workspace: a Workspace event with change Focus.
SwayFocus(maxEvents) ==
    /\ Len(emitted) < maxEvents
    /\ \E w \in WorkspaceIds \ {focused} :
         /\ Emit([id |-> Len(emitted) + 1, variant |-> "Workspace", change |-> "Focus",
                  old |-> SwayNode(focused, FALSE), current |-> SwayNode(w, TRUE)])
         /\ focused' = w
    /\ UNCHANGED <<pc, call, result, ncalls, lock_owner, join_handle, listeners,
                   tasks, conns, invoked, chans, conv, net,
                   nm, nopen>>

\* The binding mode changes: a Mode event.
SwayMode(maxEvents) ==
    /\ Len(emitted) < maxEvents
    /\ Emit([id |-> Len(emitted) + 1, variant |-> "Mode", change |-> None,
             old |-> NoNode, current |-> NoNode])
    /\ UNCHANGED <<pc, call, result, ncalls, lock_owner, join_handle, listeners,
                   tasks, conns, focused, invoked, chans, conv, net,
                   nm, nopen>>

\* A Workspace event with change Init that carries no current workspace:
\* WorkspaceEvent.current is an Option, and the conversion expects it.
SwayInitNoCurrent(maxEvents) ==
    /\ Len(emitted) < maxEvents
    /\ Emit([id |-> Len(emitted) + 1, variant |-> "Workspace", change |-> "Init",
             old |-> NoNode, current |-> NoNode])
    /\ UNCHANGED <<pc, call, result, ncalls, lock_owner, join_handle, listeners,
                   tasks, conns, focused, invoked, chans, conv, net,
                   nm, nopen>>

\* sway closes a subscription: the stream ends, after an error item or not.
SwayDisconnect(t) ==
    /\ tasks[t].pc \in {"reading", "dispatch"}
    /\ ~tasks[t].closed
    /\ \E withError \in BOOLEAN :
         stream' = [stream EXCEPT ![t] = IF withError THEN Append(stream[t], ErrorItem)
                                         ELSE stream[t]]
    /\ tasks' = [tasks EXCEPT ![t].closed = TRUE]
    /\ UNCHANGED <<pc, call, result, ncalls, lock_owner, join_handle, listeners,
                   conns, focused, emitted, invoked, chans, conv, net,
                   nm, nopen, gap>>

\* The owner of a receive end takes its next value.
Recv(h) ==
    /\ chans[h].created
    /\ \A c \in Callers : call[c].chan # h   \* rx has been returned
    /\ chans[h].next < chans[h].sent
    /\ chans' = [chans EXCEPT ![h] = BroadcastRecv(chans[h])]
    /\ UNCHANGED <<pc, call, result, ncalls, lock_owner, join_handle, listeners,
                   tasks, stream, conns, focused, emitted, invoked, conv, net,
                   nm, nopen, gap>>

-----------------------------------------------------------------------------
(* The NetworkManager client's decision function *)

\* Variant: "wpan" counts as a wifi connection.
determine_state_Wpan(primary_connection, primary_connection_type, wireless_enabled) ==
    IF primary_connection = "/"
    THEN IF wireless_enabled THEN "WifiDisconnected" ELSE "Offline"
    ELSE CASE primary_connection_type \in {"802-3-ethernet", "adsl", "pppoe"} ->
                "WiredConnected"
           [] primary_connection_type \in {"802-11-olpc-mesh", "802-11-wireless", "wifi-p2p",
                                           "wpan"} ->
                "WifiConnected"
           [] primary_connection_type \in {"cdma", "gsm", "wimax"} -> "CellularConnected"
           [] primary_connection_type \in {"vpn", "wireguard"} -> "VpnConnected"
           [] OTHER -> "Unknown"

determine_state(primary_connection, primary_connection_type, wireless_enabled) ==
    IF primary_connection = "/"
    THEN IF wireless_enabled THEN "WifiDisconnected" ELSE "Offline"
    ELSE CASE primary_connection_type \in {"802-3-ethernet", "adsl", "pppoe"} ->
                "WiredConnected"
           [] primary_connection_type \in {"802-11-olpc-mesh", "802-11-wireless", "wifi-p2p"} ->
                "WifiConnected"
           [] primary_connection_type \in {"cdma", "gsm", "wimax"} -> "CellularConnected"
           [] primary_connection_type \in {"vpn", "wireguard"} -> "VpnConnected"
           [] OTHER -> "Unknown"

\* One evaluation of determine_state on the inputs drawn by NetInit.
DetermineState ==
    /\ net.out = None
    /\ net' = [net EXCEPT !.out = determine_state(net.primary_connection,
                                                   net.primary_connection_type,
                                                   net.wireless_enabled)]
    /\ UNCHANGED <<swayVars, conv, nm>>

\* One conversion of the event drawn by ConvInit.
Convert ==
    /\ ~conv.done
    /\ conv' = [conv EXCEPT !.out = WorkspaceUpdateFrom(conv.event), !.done = TRUE]
    /\ UNCHANGED <<swayVars, net, nm>>

-----------------------------------------------------------------------------
(* The network module: spawn_controller's task and the D-Bus object it reads *)

NmInterface == "org.freedesktop.NetworkManager"
OtherInterface == "org.freedesktop.NetworkManager.Other"

\* properties: the reply of get_all. ver counts the changes of the object's
\* properties. signals holds the PropertiesChanged signals waiting in the
\* stream, taken those the task has read from it. published is what the task
\* has sent on tx, each state with the properties it was computed from.
NoNm ==
    [pc |-> "unborn",
     properties |-> [PrimaryConnection |-> "/", PrimaryConnectionType |-> "",
                     WirelessEnabled |-> FALSE],
     ver |-> 0, subscribed |-> FALSE, closed |-> FALSE, nemit |-> 0,
     signals |-> <<>>, taken |-> <<>>, published |-> <<>>]

\* The match of get_network_state on the properties it has read.
get_network_state(properties) ==
    IF properties.PrimaryConnection # "/"
    THEN CASE properties.PrimaryConnectionType \in
                  {"802-11-olpc-mesh", "802-11-wireless", "wifi-p2p", "wpan"} -> "Wireless"
           [] properties.PrimaryConnectionType \in {"802-3-ethernet", "adsl", "pppoe"} ->
                  "Wired"
           [] properties.PrimaryConnectionType \in {"cdma", "gsm", "wimax"} -> "Cellular"
           [] properties.PrimaryConnectionType \in {"vpn", "wireguard"} -> "Vpn"
           [] OTHER -> "Unknown"
    ELSE IF properties.WirelessEnabled THEN "WirelessDisconnected" ELSE "Offline"

\* One evaluation of the module's get_network_state on a get_all reply that
\* carries the inputs drawn by NetInit.
GetNetworkState ==
    /\ net.module_out = None
    /\ net' = [net EXCEPT !.module_out =
                    get_network_state([PrimaryConnection |-> net.primary_connection,
                                       PrimaryConnectionType |-> net.primary_connection_type,
                                       WirelessEnabled |-> net.wireless_enabled])]
    /\ UNCHANGED <<swayVars, conv, nm>>

\* Outcomes of get_network_state: the reply is read ("ok"), get_all fails
\* ("err"), or a property has another type than expected ("mistyped").
ReadOutcomes == {"ok", "err", "mistyped"}

\* get_network_state(..).await?; send_async!(tx, ModuleUpdateEvent::Update(state))
\* for signal number sig (0: the read before the loop).
ReadAndPublish(sig, outcome, next) ==
    CASE outcome = "ok" ->
            [nm EXCEPT !.published = Append(nm.published,
                            [state |-> get_network_state(nm.properties),
                             sig |-> sig, properties |-> nm.properties,
                             ver |-> nm.ver]),
                       !.pc = next]
      [] outcome = "err" -> [nm EXCEPT !.pc = "err"]
      [] OTHER -> [nm EXCEPT !.pc = "panicked"]

\* zbus::Connection::system().await?; PropertiesProxy::builder(..)..build().await?
NmProxy ==
    /\ nm.pc = "proxy"
    /\ \E ok \in BOOLEAN : nm' = [nm EXCEPT !.pc = IF ok THEN "initial" ELSE "err"]
    /\ UNCHANGED <<swayVars, conv, net>>

\* The read before the loop.
NmInitialState ==
    /\ nm.pc = "initial"
    /\ \E outcome \in ReadOutcomes : nm' = ReadAndPublish(0, outcome, "receive")
    /\ UNCHANGED <<swayVars, conv, net>>

\* nm_proxy.receive_properties_changed().await?
NmReceivePropertiesChanged ==
    /\ nm.pc = "receive"
    /\ \E ok \in BOOLEAN :
         nm' = IF ok THEN [nm EXCEPT !.pc = "next", !.subscribed = TRUE]
               ELSE [nm EXCEPT !.pc = "err"]
    /\ UNCHANGED <<swayVars, conv, net>>

\* prop_changed_stream.next().await; signal.args()?; the interface_name test
NmNextSignal ==
    /\ nm.pc = "next"
    /\ IF nm.signals # <<>>
       THEN LET signal == Head(nm.signals)
                taken == [nm EXCEPT !.signals = Tail(nm.signals),
                                    !.taken = Append(nm.taken, signal)]
            IN  nm' = IF ~signal.args_ok THEN [taken EXCEPT !.pc = "err"]
                      ELSE IF signal.interface_name # NmInterface THEN taken
                      ELSE [taken EXCEPT !.pc = "reread"]
       ELSE /\ nm.closed
            /\ nm' = [nm EXCEPT !.pc = "ok"]
    /\ UNCHANGED <<swayVars, conv, net>>

\* Variant: the state read before the loop is published again.
NmReread_Cached ==
    /\ nm.pc = "reread"
    /\ nm' = [nm EXCEPT !.published = Append(nm.published,
                            [nm.published[1] EXCEPT
                                 !.sig = nm.taken[Len(nm.taken)].id]),
                        !.pc = "next"]
    /\ UNCHANGED <<swayVars, conv, net>>

\* The read inside the loop, for the signal just taken.
NmReread ==
    /\ nm.pc = "reread"
    /\ \E outcome \in ReadOutcomes :
         nm' = ReadAndPublish(nm.taken[Len(nm.taken)].id, outcome, "next")
    /\ UNCHANGED <<swayVars, conv, net>>

\* Values the properties of the NetworkManager object take in the model.
NmProperties ==
    [PrimaryConnection : {"/", "/path"},
     PrimaryConnectionType : {"802-3-ethernet", "wpan"},
     WirelessEnabled : BOOLEAN]

\* The bus delivers a PropertiesChanged signal to the task's stream, if it has
\* one.
Signal(interface, args_ok, ver) ==
    [id |-> nm.nemit + 1, interface_name |-> interface, args_ok |-> args_ok, ver |-> ver]

\* NetworkManager changes its properties and signals it.
BusPropertiesChanged(maxSignals) ==
    /\ nm.pc # "unborn"
    /\ ~nm.closed
    /\ nm.nemit < maxSignals
    /\ \E p \in NmProperties \ {nm.properties}, args_ok \in BOOLEAN :
         nm' = [nm EXCEPT !.properties = p,
                          !.ver = nm.ver + 1,
                          !.nemit = nm.nemit + 1,
                          !.signals = IF nm.subscribed
                                      THEN Append(nm.signals,
                                                  Signal(NmInterface, args_ok, nm.ver + 1))
                                      ELSE nm.signals]
    /\ UNCHANGED <<swayVars, conv, net>>

\* A PropertiesChanged signal of another interface of the same object.
BusOtherSignal(maxSignals) ==
    /\ nm.pc # "unborn"
    /\ ~nm.closed
    /\ nm.nemit < maxSignals
    /\ nm' = [nm EXCEPT !.nemit = nm.nemit + 1,
                        !.signals = IF nm.subscribed
                                    THEN Append(nm.signals,
                                                Signal(OtherInterface, TRUE, nm.ver))
                                    ELSE nm.signals]
    /\ UNCHANGED <<swayVars, conv, net>>

\* The bus connection goes away: the stream ends.
BusClose ==
    /\ nm.subscribed
    /\ ~nm.closed
    /\ nm' = [nm EXCEPT !.closed = TRUE]
    /\ UNCHANGED <<swayVars, conv, net>>

-----------------------------------------------------------------------------
(* Specifications *)

NoConv == [event |-> NoEvent, out |-> UpdUnknown, done |-> FALSE]
NoNet == [primary_connection |-> "/", primary_connection_type |-> "", wireless_enabled |-> FALSE,
          out |-> None, module_out |-> None]

\* Client::new: Client.client connected, no task, no listeners.
SwayInit ==
    /\ pc = [c \in Callers |-> "idle"]
    /\ call = [c \in Callers |-> NoCall]
    /\ result = [c \in Callers |-> None]
    /\ ncalls = 0
    /\ lock_owner = 0
    /\ join_handle = 0
    /\ listeners = <<>>
    /\ tasks = [t \in TaskIds |-> NoTask]
    /\ stream = [t \in TaskIds |-> <<>>]
    /\ conns = {0}
    /\ focused = 1
    /\ emitted = <<>>
    /\ invoked = <<>>
    /\ chans = [h \in ChanIds |-> NoChan]
    /\ nopen = 0
    /\ gap = <<>>

Init ==
    /\ SwayInit
    /\ conv = NoConv
    /\ net = NoNet
    /\ nm = NoNm

Next ==
    \/ \E c \in Callers : AddListener(c, MaxCalls)
    \/ \E c \in Callers : SubscribeWorkspaceChange(c, MaxCalls)
    \/ \E c \in Callers : AddListenerLock(c)
    \/ \E c \in Callers : AddListenerPush(c)
    \/ \E c \in Callers : AddListenerSpawn(c)
    \/ \E t \in TaskIds : TaskSubscribe(t)
    \/ \E t \in TaskIds : TaskNext(t)
    \/ \E t \in TaskIds : TaskDispatch(t)
    \/ \E t \in TaskIds : TaskCancel(t)
    \/ \E t \in TaskIds : SwayDisconnect(t)
    \/ SwayFocus(MaxEvents)
    \/ SwayMode(MaxEvents)
    \/ \E h \in ChanIds : Recv(h)

Spec == Init /\ [][Next]_vars

\* One workspace subscriber and a run of focus events.
NextBurst ==
    \/ SubscribeWorkspaceChange(1, 1)
    \/ AddListenerLock(1)
    \/ AddListenerPush(1)
    \/ AddListenerSpawn(1)
    \/ TaskSubscribe(1)
    \/ TaskNext(1)
    \/ TaskDispatch(1)
    \/ SwayFocus(BurstEvents)
    \/ Recv(1)

SpecBurst == Init /\ [][NextBurst]_vars

\* The Client with a source that also emits a workspace event the conversion
\* panics on; the receivers are left out.
NextFault ==
    \/ \E c \in Callers : AddListener(c, MaxCalls)
    \/ \E c \in Callers : SubscribeWorkspaceChange(c, MaxCalls)
    \/ \E c \in Callers : AddListenerLock(c)
    \/ \E c \in Callers : AddListenerPush(c)
    \/ \E c \in Callers : AddListenerSpawn(c)
    \/ \E t \in TaskIds : TaskSubscribe(t)
    \/ \E t \in TaskIds : TaskNext(t)
    \/ \E t \in TaskIds : TaskDispatch(t)
    \/ \E t \in TaskIds : TaskCancel(t)
    \/ SwayFocus(MaxEvents)
    \/ SwayMode(MaxEvents)
    \/ SwayInitNoCurrent(MaxEvents)
    \/ \E t \in TaskIds : SwayDisconnect(t)

SpecFault == Init /\ [][NextFault]_vars

\* Inputs of the conversion: every change kind with present or missing nodes.
WorkspaceChanges == {"Init", "Empty", "Focus", "Move", "Rename", "Urgent", "Reload"}

Nodes ==
    [id : WorkspaceIds, name : {None, "web"}, output : {None, "eDP-1"},
     focused : BOOLEAN, visible : {None, "true", "false"}]

ConvInit ==
    /\ SwayInit
    /\ net = NoNet
    /\ nm = NoNm
    /\ \E ch \in WorkspaceChanges, cur \in Nodes \cup {NoNode}, old \in Nodes \cup {NoNode} :
         conv = [event |-> [id |-> 1, variant |-> "Workspace", change |-> ch,
                            old |-> old, current |-> cur],
                 out |-> UpdUnknown, done |-> FALSE]

SpecConv == ConvInit /\ [][Convert]_vars

\* Inputs of determine_state.
ConnectionPaths == {"/", "/path", "/org/freedesktop/NetworkManager/ActiveConnection/1"}

ConnectionTypes ==
    {"802-3-ethernet", "adsl", "pppoe", "802-11-olpc-mesh", "802-11-wireless",
     "wifi-p2p", "cdma", "gsm", "wimax", "vpn", "wireguard", "wpan", "bluetooth",
     "loopback", "dummy", ""}

NetInit ==
    /\ SwayInit
    /\ conv = NoConv
    /\ nm = NoNm
    /\ \E p \in ConnectionPaths, ty \in ConnectionTypes, w \in BOOLEAN :
         net = [primary_connection |-> p, primary_connection_type |-> ty,
                wireless_enabled |-> w, out |-> None, module_out |-> None]

SpecNet == NetInit /\ [][DetermineState]_vars

\* Both decision functions on the same inputs.
NextNetBoth ==
    \/ DetermineState
    \/ GetNetworkState

SpecNetBoth == NetInit /\ [][NextNetBoth]_vars

\* The task spawned by spawn_controller, with the properties NetworkManager
\* has at that time.
NmInit ==
    /\ SwayInit
    /\ conv = NoConv
    /\ net = NoNet
    /\ \E p \in NmProperties : nm = [NoNm EXCEPT !.pc = "proxy", !.properties = p]

NextNm ==
    \/ NmProxy
    \/ NmInitialState
    \/ NmReceivePropertiesChanged
    \/ NmNextSignal
    \/ NmReread
    \/ BusPropertiesChanged(MaxSignals)
    \/ BusOtherSignal(MaxSignals)
    \/ BusClose

SpecNm == NmInit /\ [][NextNm]_vars

-----------------------------------------------------------------------------
(* Properties *)

AliveTasks == {t \in TaskIds : tasks[t].pc \in {"spawned", "reading", "dispatch"}}

\* C1: at every reachable state at most one Dispatcher task is alive, whatever
\* the interleaving of add_listener_type calls and event delivery.
C1_AtMostOneDispatcher == Cardinality(AliveTasks) <= 1

\* A restarted Dispatcher reads while another caller waits for the Mutex.
C1_Witness ==
    /\ tasks[1].pc = "joined"
    /\ tasks[2].pc = "reading"
    /\ \E c \in Callers : pc[c] = "lock"

\* C2: a Dispatcher that has issued subscribe is subscribed to exactly the
\* kinds of all registry entries; no kind registered earlier is missing.
C2_SubscribedKindsAreRegistryKinds ==
    \A t \in TaskIds :
        tasks[t].pc \in {"reading", "dispatch"} =>
            SeqToSet(tasks[t].event_types) =
                {listeners[i].event_type : i \in 1..Len(listeners)}

\* Two distinct kinds are registered and the live Dispatcher has subscribed.
C2_Witness ==
    /\ {listeners[i].event_type : i \in 1..Len(listeners)} = {"Workspace", "Mode"}
    /\ \E t \in TaskIds : tasks[t].pc = "reading" /\ t = join_handle
    /\ \A c \in Callers : pc[c] = "idle"

InitOf(h) == UpdInit(MapWorkspaceFrom(chans[h].query))

\* C3: the first message obtained from the receive end returned by
\* subscribe_workspace_change is the Init built from that call's
\* get_workspaces reply; no update is received before it.
C3_FirstReceivedIsInit ==
    \A h \in ChanIds :
        (chans[h].created /\ chans[h].got # <<>>) => chans[h].got[1] = InitOf(h)

\* C4: for one event, matching callbacks are invoked in registration order,
\* also by a Dispatcher spawned by a restart.
C4_InvokedInRegistrationOrder ==
    \A i, j \in 1..Len(invoked) :
        (i < j /\ invoked[i].task = invoked[j].task /\ invoked[i].ev = invoked[j].ev)
            => invoked[i].entry < invoked[j].entry

\* The third Dispatcher (two restarts) has invoked two callbacks for one event.
C4_Witness ==
    \E i, j \in 1..Len(invoked) :
        /\ i < j
        /\ invoked[i].task = 3
        /\ invoked[j].task = 3
        /\ invoked[i].ev = invoked[j].ev

HasEntry(ls, h) == \E i \in 1..Len(ls) : ls[i].chan = h
Drained(h) == chans[h].next = chans[h].sent

\* Two subscribers are registered with the live Dispatcher t, which has read
\* the one Focus event sway emitted; both receivers have taken all they can.
C5_Scenario(h1, h2, t) ==
    /\ h1 # h2
    /\ chans[h1].created /\ chans[h2].created
    /\ tasks[t].pc = "reading"
    /\ HasEntry(tasks[t].listeners, h1) /\ HasEntry(tasks[t].listeners, h2)
    /\ Len(emitted) = 1 /\ emitted[1].change = "Focus"
    /\ \E k \in 1..Len(invoked) : invoked[k].task = t /\ invoked[k].ev = 1
    /\ Drained(h1) /\ Drained(h2)

\* C5: two subscribers each get an Init with the same snapshot first and,
\* after one Focus event, exactly one Focus update with identical old/new.
C5_TwoSubscribersSeeSameUpdates ==
    \A h1, h2 \in ChanIds : \A t \in TaskIds :
        C5_Scenario(h1, h2, t) =>
            /\ Len(chans[h1].got) = 2 /\ Len(chans[h2].got) = 2
            /\ chans[h1].got[1].tag = "Init"
            /\ chans[h1].got[1] = chans[h2].got[1]
            /\ chans[h1].got[1].all = MapWorkspaceFrom(chans[h1].query)
            /\ chans[h1].got[2].tag = "Focus"
            /\ chans[h1].got[2] = chans[h2].got[2]
            /\ chans[h1].got[2].old.id = emitted[1].old.id
            /\ chans[h1].got[2].ws.id = emitted[1].current.id

C5_Witness == \E h1, h2 \in ChanIds : \E t \in TaskIds : C5_Scenario(h1, h2, t)

\* C6: determine_state gives WifiDisconnected / Offline for path "/" by
\* wireless_enabled alone, and otherwise the category of the connection type,
\* Unknown for every type outside the four lists.
C6_DetermineStateTable ==
    net.out # None =>
        LET ty == net.primary_connection_type
        IN  IF net.primary_connection = "/"
            THEN net.out = (IF net.wireless_enabled THEN "WifiDisconnected" ELSE "Offline")
            ELSE /\ ty \in {"802-3-ethernet", "adsl", "pppoe"} => net.out = "WiredConnected"
                 /\ ty \in {"802-11-olpc-mesh", "802-11-wireless", "wifi-p2p"} =>
                        net.out = "WifiConnected"
                 /\ ty \in {"cdma", "gsm", "wimax"} => net.out = "CellularConnected"
                 /\ ty \in {"vpn", "wireguard"} => net.out = "VpnConnected"
                 /\ ty \notin {"802-3-ethernet", "adsl", "pppoe", "802-11-olpc-mesh",
                               "802-11-wireless", "wifi-p2p", "cdma", "gsm", "wimax",
                               "vpn", "wireguard"} => net.out = "Unknown"

\* An unrecognised type on a real connection, wireless enabled: Unknown.
C6_Witness ==
    /\ net.primary_connection = "/path"
    /\ net.primary_connection_type = "bluetooth"
    /\ net.wireless_enabled
    /\ net.out = "Unknown"

\* The table of the conversion for an event whose current workspace is cur.
C7_Expected(event, out) ==
    CASE event.change = "Init" ->
            out.tag = "Add" /\ out.ws.id = event.current.id
      [] event.change = "Empty" ->
            out.tag = "Remove" /\ out.id = event.current.id
      [] event.change = "Focus" ->
            /\ out.tag = "Focus"
            /\ out.ws.id = event.current.id
            /\ out.old.id = event.old.id
      [] event.change = "Move" ->
            out.tag = "Move" /\ out.ws.id = event.current.id
      [] OTHER -> out = UpdUnknown

\* C7 as stated: the table holds and the conversion does not fail, whatever
\* the event's other fields are.
C7_ConversionNeverFails == conv.done => C7_Expected(conv.event, conv.out)

\* C7 amended: Init, Empty, Focus and Move follow the table when the event
\* carries its current workspace; every other change kind gives Unknown
\* whatever the other fields are.
C7_ConversionTable ==
    conv.done =>
        /\ (conv.event.current # NoNode
              \/ conv.event.change \notin {"Init", "Empty", "Focus", "Move"})
                => C7_Expected(conv.event, conv.out)
        /\ (conv.event.current = NoNode
              /\ conv.event.change \in {"Init", "Empty", "Focus", "Move"})
                => conv.out = Panic

\* A Reload event without any workspace has been converted to Unknown.
C7_Witness ==
    /\ conv.done
    /\ conv.event.change = "Reload"
    /\ conv.event.current = NoNode
    /\ conv.out = UpdUnknown

\* C8: a call that found a task handle opens the replacement connection only
\* after that task has ended and released its connection; no task exists
\* beside an earlier one that can still read or invoke callbacks.
C8_RestartAfterTermination ==
    /\ \A c \in Callers :
          (pc[c] = "connect" /\ call[c].handle # 0) =>
              /\ tasks[call[c].handle].pc = "joined"
              /\ call[c].handle \notin conns
    /\ \A t1, t2 \in TaskIds :
          (t1 < t2 /\ tasks[t2].pc # "unborn") =>
              tasks[t1].pc \notin {"spawned", "reading", "dispatch"}

\* A call that found the first task is about to open its connection while
\* that task had read an event before it was aborted.
C8_Witness ==
    \E c \in Callers :
        /\ pc[c] = "connect"
        /\ call[c].handle = 1
        /\ \E k \in 1..Len(invoked) : invoked[k].task = 1

InCall == {c \in Callers : pc[c] \in {"await_handle", "connect"}}

\* C9: the steps of add_listener_type calls never interleave (only the Mutex
\* holder is between lock and return), and after N successful calls the
\* registry holds N entries and the stored handle is the last task spawned.
C9_CallsSerialized ==
    /\ \A c \in InCall : lock_owner = c
    /\ (InCall = {}) => lock_owner = 0
    /\ ((\A c \in Callers : pc[c] = "idle") /\ NextTaskId - 1 = ncalls) =>
           /\ Len(listeners) = ncalls
           /\ join_handle = ncalls

\* Three calls, by two callers, have all succeeded.
C9_Witness ==
    /\ \A c \in Callers : pc[c] = "idle"
    /\ ncalls = 3
    /\ NextTaskId - 1 = 3
    /\ \E c1, c2 \in Callers : c1 # c2 /\ result[c1] = "Ok" /\ result[c2] = "Ok"

\* C10 as stated: never more than one open connection to sway.
C10_AtMostOneConnection == Cardinality(conns) <= 1

\* C10 amended: the Client keeps the connection opened by Client::new, and
\* beside it at most one subscription connection is open, that of the live
\* Dispatcher; never more than two in all.
C10_ClientPlusOneSubscription ==
    /\ 0 \in conns
    /\ conns \ {0} = AliveTasks
    /\ Cardinality(conns \ {0}) <= 1
    /\ Cardinality(conns) <= 2

\* After a restart: the Client's connection and the second Dispatcher's.
C10_Witness == conns = {0, 2}

-----------------------------------------------------------------------------
(* The subscribe call, the connection attempt and the end of a Dispatcher *)

RegistryKinds == {listeners[i].event_type : i \in 1..Len(listeners)}

\* C11 as stated: subscribe is issued before the Dispatcher task is spawned
\* and before the call returns Ok, so no task exists whose subscribe call is
\* still to be issued.
C11_SubscribeBeforeSpawn == \A t \in TaskIds : tasks[t].pc # "spawned"

\* C11 amended: subscribe is issued by the spawned Dispatcher task itself,
\* after the spawn, and the call may have returned Ok before it. A task is
\* spawned holding the event types of all registry entries, it issues
\* subscribe for exactly that kind set as its first step unless it is
\* cancelled first, and it never issues a second subscribe.
C11_SubscribeInsideTask ==
    [][\A t \in TaskIds :
         /\ (tasks'[t].pc = "spawned" /\ tasks[t].pc # "spawned") =>
                /\ tasks[t].pc = "unborn"
                /\ tasks'[t].event_types = MapEventTypes(listeners')
                /\ SeqToSet(tasks'[t].event_types) = RegistryKinds'
                /\ join_handle' = t
                /\ \E c \in Callers : pc[c] = "connect" /\ result'[c] = "Ok"
         /\ (tasks[t].pc = "spawned" /\ tasks'[t].pc # "spawned") =>
                /\ tasks'[t].pc \in {"reading", "err", "cancelled"}
                /\ SeqToSet(tasks[t].event_types) = RegistryKinds
         /\ (tasks'[t].pc = "reading" /\ tasks[t].pc # "reading") =>
                tasks[t].pc \in {"spawned", "dispatch"}
      ]_vars

\* The call that registered the second of two kinds has returned Ok and the
\* task it spawned has not issued subscribe yet.
C11_Witness ==
    \E t \in TaskIds :
        /\ join_handle = t
        /\ tasks[t].pc = "spawned"
        /\ lock_owner = 0
        /\ \A c \in Callers : pc[c] = "idle"
        /\ \E c \in Callers : result[c] = "Ok"
        /\ RegistryKinds = {"Workspace", "Mode"}

\* C12: a call whose Connection::new fails has made one attempt, returns Err
\* to its caller and spawns no task: tasks, join_handle and the open
\* connections are as before. A call that leaves the connect step has made
\* exactly one attempt, and no attempt is made anywhere else.
C12_OneOpenAttemptNoTask ==
    [][/\ \A c \in Callers :
            (pc[c] = "connect" /\ pc'[c] # "connect") =>
                /\ nopen' = nopen + 1
                /\ result'[c] \in {"Ok", "Err"}
                /\ result'[c] = "Err" =>
                       /\ tasks' = tasks
                       /\ join_handle' = join_handle
                       /\ conns' = conns
                       /\ pc'[c] \in {"idle", "panicked"}
                /\ result'[c] = "Ok" => tasks' # tasks
       /\ nopen' # nopen => \E c \in Callers : pc[c] = "connect" /\ pc'[c] # "connect"
      ]_vars

\* The first Dispatcher was aborted and joined by a call whose replacement
\* connection failed: the call has returned Err and no task exists.
C12_Witness ==
    \E c \in Callers :
        /\ pc[c] = "idle"
        /\ result[c] = "Err"
        /\ lock_owner = 0
        /\ join_handle = 0
        /\ tasks[1].pc = "joined"
        /\ NextTaskId = 2
        /\ nopen = 2

\* C13: a Dispatcher whose stream has ended ends with Ok, one whose stream
\* yields an error item or whose subscribe fails ends with Err (unless it is
\* cancelled first), and a task that has ended invokes no callback: while no
\* task is alive no callback is invoked.
C13_EndsWithItsStream ==
    [][/\ \A t \in TaskIds :
            /\ (tasks[t].pc = "spawned" /\ tasks'[t].pc \notin {"spawned", "reading"}) =>
                   tasks'[t].pc \in {"err", "cancelled"}
            /\ (tasks[t].pc = "reading" /\ stream[t] = <<>> /\ tasks[t].closed
                  /\ tasks'[t].pc # "reading") =>
                   tasks'[t].pc \in {"ok", "cancelled"}
            /\ (tasks[t].pc = "reading" /\ stream[t] # <<>> /\ stream'[t] # stream[t]
                  /\ Head(stream[t]) = ErrorItem) =>
                   tasks'[t].pc \in {"err", "cancelled"}
            /\ tasks[t].pc \notin Alive =>
                   \A k \in (Len(invoked) + 1)..Len(invoked') : invoked'[k].task # t
       /\ AliveTasks = {} => invoked' = invoked
      ]_vars

\* The stored Dispatcher dispatched the first event and ended on an error
\* item; the second event, emitted after that, has reached no callback.
C13_Witness ==
    \E t \in TaskIds :
        /\ join_handle = t
        /\ tasks[t].pc = "err"
        /\ Len(emitted) = 2
        /\ gap[2]
        /\ \E k \in 1..Len(invoked) : invoked[k].task = t /\ invoked[k].ev = 1
        /\ \A k \in 1..Len(invoked) : invoked[k].ev # 2

-----------------------------------------------------------------------------
(* Dispatch: panics, multiplicity and order *)

\* C14: a callback that panics ends its Dispatcher task: that task invokes
\* nothing after it, neither the matching entries registered after the
\* failing one nor any callback for a later event, and whatever is invoked
\* later is invoked by a task spawned by a later registration.
C14_PanicEndsDispatcher ==
    \A k \in 1..Len(invoked) :
        ~invoked[k].ok =>
            /\ tasks[invoked[k].task].pc \in {"panicked", "joined"}
            /\ \A k2 \in (k + 1)..Len(invoked) : invoked[k2].task > invoked[k].task
            /\ \A k2 \in (k + 1)..Len(invoked) :
                   tasks[invoked[k2].task].nreg > tasks[invoked[k].task].nreg

\* The first of two workspace callbacks panicked on the first event; the
\* second one was not invoked for it, and the second event, emitted after
\* the task had ended, reached no callback.
C14_Witness ==
    \E k \in 1..Len(invoked) :
        LET t == invoked[k].task
        IN  /\ ~invoked[k].ok
            /\ invoked[k].ev = 1
            /\ \E j \in (invoked[k].entry + 1)..tasks[t].nreg :
                   listeners[j].event_type = "Workspace"
            /\ \E j \in 1..tasks[t].nreg : listeners[j].event_type = "Mode"
            /\ tasks[t].pc = "panicked"
            /\ Len(emitted) = 2
            /\ gap[2]
            /\ Len(invoked) = k

\* How often task t has invoked registry entry i for event ev.
Count(t, ev, i) ==
    Cardinality({k \in 1..Len(invoked) :
                    invoked[k].task = t /\ invoked[k].ev = ev /\ invoked[k].entry = i})

\* Task t has read event ev and run its loop over the entries for it.
Dispatched(t, ev) == \E k \in 1..Len(invoked) : invoked[k].task = t /\ invoked[k].ev = ev

\* An entry before i panicked when task t invoked it for event ev.
PanickedBefore(t, ev, i) ==
    \E k \in 1..Len(invoked) :
        invoked[k].task = t /\ invoked[k].ev = ev /\ invoked[k].entry < i /\ ~invoked[k].ok

\* C15 as stated: for every event a Dispatcher has dispatched, each of its
\* entries of the event's kind was invoked exactly once and no other entry.
C15_EachMatchingEntryOnce ==
    \A t \in TaskIds : \A ev \in 1..Len(emitted) :
        Dispatched(t, ev) =>
            \A i \in 1..Len(listeners) :
                Count(t, ev, i) =
                    IF i <= tasks[t].nreg
                       /\ listeners[i].event_type = sway_event_to_event_type(emitted[ev])
                    THEN 1 ELSE 0

\* C15 amended: for every event a Dispatcher has dispatched, each of its
\* entries of the event's kind was invoked exactly once unless an entry
\* registered before it panicked on that event, in which case it was not
\* invoked; no entry of another kind was invoked, and none twice.
C15_EachMatchingEntryOnceUnlessPanic ==
    \A t \in TaskIds : \A ev \in 1..Len(emitted) :
        Dispatched(t, ev) =>
            \A i \in 1..Len(listeners) :
                Count(t, ev, i) =
                    IF i <= tasks[t].nreg
                       /\ listeners[i].event_type = sway_event_to_event_type(emitted[ev])
                       /\ ~PanickedBefore(t, ev, i)
                    THEN 1 ELSE 0

\* A task with two Workspace entries and a Mode entry has dispatched a
\* Workspace event to both Workspace entries, once each, and a second
\* Workspace event to the first entry only, which panicked.
C15_Witness ==
    \E t \in TaskIds :
        /\ tasks[t].nreg = 3
        /\ Cardinality({i \in 1..3 : listeners[i].event_type = "Workspace"}) = 2
        /\ Dispatched(t, 1)
        /\ Dispatched(t, 2)
        /\ \E i, j \in 1..3 :
               /\ i < j
               /\ Count(t, 1, i) = 1 /\ Count(t, 1, j) = 1
               /\ Count(t, 2, i) = 1 /\ Count(t, 2, j) = 0
               /\ PanickedBefore(t, 2, j)

\* C16: one task invokes callbacks event by event in the order of its stream:
\* once it has invoked a callback for an event it invokes none for an event
\* sway wrote earlier.
C16_DispatchedInTransportOrder ==
    \A k1, k2 \in 1..Len(invoked) :
        (k1 < k2 /\ invoked[k1].task = invoked[k2].task) => invoked[k1].ev <= invoked[k2].ev

\* One task has dispatched two events, each to two callbacks: both
\* invocations for the first event come before those for the second.
C16_Witness ==
    \E t \in TaskIds :
        /\ Len(invoked) = 4
        /\ \A k \in 1..4 : invoked[k].task = t
        /\ invoked[1].ev = 1 /\ invoked[2].ev = 1
        /\ invoked[3].ev = 2 /\ invoked[4].ev = 2

-----------------------------------------------------------------------------
(* The restart gap, the bounded backlog and the registry *)

\* C17: an event sway emitted after a Dispatcher had ended and before the
\* next one's subscribe call had completed is written to no subscription
\* and is never passed to a callback, by no task and for no entry.
C17_GapEventsAreLost ==
    \A e \in 1..Len(emitted) :
        gap[e] =>
            /\ \A k \in 1..Len(invoked) : invoked[k].ev # e
            /\ \A t \in TaskIds : \A n \in 1..Len(stream[t]) : stream[t][n].id # e
            /\ \A t \in TaskIds : tasks[t].cur.id # e

\* The first event fell into the gap of a restart; the restarted task, with
\* an earlier and a new entry of that event's kind, has dispatched the second
\* event, of the same kind, to both and the first event to neither.
C17_Witness ==
    \E t \in TaskIds :
        /\ t > 1
        /\ tasks[t].nreg = 2
        /\ Len(emitted) = 2
        /\ gap[1]
        /\ emitted[1].variant = emitted[2].variant
        /\ Count(t, 2, 1) = 1 /\ Count(t, 2, 2) = 1
        /\ tasks[t].pc = "reading"
        /\ stream[t] = <<>>

\* The n-th message published on the subscriber's channel: the Init, then
\* one update per invocation of its callback.
Published(n) ==
    IF n = 1 THEN InitOf(1) ELSE WorkspaceUpdateFrom(emitted[invoked[n - 1].ev])

\* C18: the workspace channel retains at most 16 messages, so its receive
\* end has at most 16 undelivered ones: the retained messages are the most
\* recently published ones in order, the oldest having been dropped for each
\* one published beyond 16. Publishing never waits: a Dispatcher with an
\* event to dispatch can always run its loop.
C18_BoundedBacklogDropsOldest ==
    /\ \A h \in ChanIds :
           /\ Len(chans[h].buf) <= ChannelCapacity
           /\ chans[h].sent - chans[h].next > ChannelCapacity =>
                  chans[h].next < ChanBase(chans[h])
    /\ chans[1].created =>
           /\ chans[1].sent = Len(invoked) + 1
           /\ Len(chans[1].buf) = IF chans[1].sent <= ChannelCapacity
                                  THEN chans[1].sent ELSE ChannelCapacity
           /\ \A i \in 1..Len(chans[1].buf) :
                  chans[1].buf[i] = Published(ChanBase(chans[1]) + i)
    /\ \A t \in TaskIds : tasks[t].pc = "dispatch" => ENABLED TaskDispatch(t)

\* The subscriber has taken nothing, 16 messages were buffered for it and a
\* 17th has been published: the Init is gone, the last 16 are retained.
C18_Witness ==
    /\ chans[1].next = 0
    /\ chans[1].sent = ChannelCapacity + 1
    /\ Len(chans[1].buf) = ChannelCapacity
    /\ chans[1].buf[1] # InitOf(1)
    /\ chans[1].buf[ChannelCapacity] = WorkspaceUpdateFrom(emitted[ChannelCapacity])

\* C20: a step leaves the registry as it is or appends one entry to it, so
\* an earlier registry is a prefix of every later one; its length is the
\* number of calls that have pushed their entry: those that went on to their
\* one connection attempt, failed or not, and those about to make it.
C20_RegistryAppendOnly ==
    [][/\ Len(listeners') \in {Len(listeners), Len(listeners) + 1}
       /\ SubSeq(listeners', 1, Len(listeners)) = listeners
       /\ Len(listeners) = nopen + Cardinality({c \in Callers : pc[c] = "connect"})
       /\ Len(listeners') = nopen' + Cardinality({c \in Callers : pc'[c] = "connect"})
      ]_vars

\* Three calls have pushed an entry and returned; one of them failed to
\* connect, and its entry is still there.
C20_Witness ==
    /\ Len(listeners) = 3
    /\ nopen = 3
    /\ NextTaskId - 1 = 2
    /\ \A c \in Callers : pc[c] = "idle"
    /\ \E c \in Callers : result[c] = "Err"

-----------------------------------------------------------------------------
(* The network module's controller *)

\* How many states the task has published for signal id.
PublishedFor(id) ==
    Cardinality({k \in 1..Len(nm.published) : nm.published[k].sig = id})

\* The task is not between taking a signal and publishing for it.
NmSettled == nm.pc # "reread"

\* The read for the signal taken last has failed and ended the task.
RereadFailed(n) ==
    /\ n = Len(nm.taken)
    /\ nm.pc \in {"err", "panicked"}
    /\ nm.taken[n].args_ok

\* What is published is computed from properties read at that time, no older
\* than the signal it answers, and is in signal order; the first state comes
\* from the read made before any signal is taken; nothing is published for a
\* signal of another interface.
NmPublishedWellFormed ==
    /\ nm.taken # <<>> => (nm.published # <<>> /\ nm.published[1].sig = 0)
    /\ PublishedFor(0) <= 1
    /\ \A k \in 1..Len(nm.published) :
           /\ nm.published[k].state = get_network_state(nm.published[k].properties)
           /\ nm.published[k].sig # 0 =>
                  \E n \in 1..Len(nm.taken) :
                      /\ nm.taken[n].id = nm.published[k].sig
                      /\ nm.taken[n].interface_name = NmInterface
                      /\ nm.taken[n].ver <= nm.published[k].ver
    /\ \A k1, k2 \in 1..Len(nm.published) :
           k1 < k2 => nm.published[k1].sig < nm.published[k2].sig

\* C19 as stated: one state is published from a read made before any signal
\* is taken, then exactly one freshly read state for every signal taken whose
\* interface is NetworkManager's and none for a signal of another interface,
\* in signal order.
C19_OnePerMatchingSignal ==
    /\ NmPublishedWellFormed
    /\ NmSettled =>
           \A n \in 1..Len(nm.taken) :
               nm.taken[n].args_ok =>
                   PublishedFor(nm.taken[n].id) =
                       IF nm.taken[n].interface_name = NmInterface THEN 1 ELSE 0

\* C19 amended: as stated, except that a read which fails publishes nothing
\* and ends the task: the signal taken last then has no state published for
\* it, and no further signal is taken.
C19_OnePerMatchingSignalUnlessReadFails ==
    /\ NmPublishedWellFormed
    /\ NmSettled =>
           \A n \in 1..Len(nm.taken) :
               nm.taken[n].args_ok =>
                   PublishedFor(nm.taken[n].id) =
                       IF nm.taken[n].interface_name = NmInterface /\ ~RereadFailed(n)
                       THEN 1 ELSE 0
    /\ nm.pc \in {"proxy", "initial"} => (nm.taken = <<>> /\ nm.signals = <<>>)
    /\ (nm.pc \in {"err", "panicked"} /\ nm.published = <<>>) => nm.taken = <<>>

\* The task has taken a NetworkManager signal, a signal of another interface
\* and a second NetworkManager signal: three states are published, the one
\* read before the loop and one for each NetworkManager signal.
C19_Witness ==
    /\ nm.pc = "next"
    /\ Len(nm.taken) = 3
    /\ nm.taken[1].interface_name = NmInterface
    /\ nm.taken[2].interface_name = OtherInterface
    /\ nm.taken[3].interface_name = NmInterface
    /\ Len(nm.published) = 3
    /\ nm.published[2].sig = nm.taken[1].id
    /\ nm.published[3].sig = nm.taken[3].id
    /\ nm.published[2].state # nm.published[3].state

-----------------------------------------------------------------------------
(* Failed and repeated registrations *)

\* C21: when Connection::new fails in add_listener_type, the task the call
\* found has been aborted and joined and stays so: the call returns with
\* join_handle empty, no task alive and its entry as the last of the
\* registry; and as long as no task is alive no callback is invoked.
C21_FailedConnectLeavesNoDispatcher ==
    [][/\ \A c \in Callers :
            (pc[c] = "connect" /\ pc'[c] # "connect" /\ result'[c] = "Err") =>
                /\ join_handle = 0
                /\ join_handle' = 0
                /\ AliveTasks = {}
                /\ AliveTasks' = {}
                /\ call[c].handle # 0 => tasks'[call[c].handle].pc = "joined"
                /\ listeners' = listeners
                /\ listeners'[Len(listeners')] =
                       [event_type |-> call[c].event_type, cb |-> call[c].cb,
                        chan |-> call[c].chan]
       /\ (join_handle = 0 /\ lock_owner = 0) => AliveTasks = {}
       /\ AliveTasks = {} => (invoked' = invoked /\ stream' = stream)
      ]_vars

\* The first Dispatcher had dispatched the first event when a second call
\* aborted it and failed to connect: the handle is empty, both entries are
\* registered, and the second event, emitted after that, reached no callback.
C21_Witness ==
    \E c \in Callers :
        /\ pc[c] = "idle"
        /\ result[c] = "Err"
        /\ lock_owner = 0
        /\ join_handle = 0
        /\ Len(listeners) = 2
        /\ nopen = 2
        /\ tasks[1].pc = "joined"
        /\ tasks[2].pc = "unborn"
        /\ Len(emitted) = 2
        /\ gap[2]
        /\ Len(invoked) = 1
        /\ invoked[1].task = 1 /\ invoked[1].ev = 1 /\ invoked[1].entry = 1

\* C22: a call that has awaited the handle it took is the only holder of the
\* listeners Arc, whatever state the task was in when it was aborted, so it
\* always pushes its entry and goes on to connect: no call returns from the
\* get_mut step.
C22_ExclusiveAccessObtained ==
    [][\A c \in Callers :
         /\ (pc[c] = "await_handle" /\ call[c].handle # 0
               /\ JoinHandleReady(call[c].handle)) => ArcStrongCount = 1
         /\ (pc[c] = "await_handle" /\ pc'[c] # "await_handle") =>
                /\ pc'[c] = "connect"
                /\ result'[c] = result[c]
                /\ lock_owner' = c
                /\ Len(listeners') = Len(listeners) + 1
      ]_vars

\* Two calls in a row have each aborted and awaited a Dispatcher that had
\* been at work, and each has pushed its entry.
C22_Witness ==
    \E c \in Callers :
        /\ pc[c] = "connect"
        /\ call[c].handle = 2
        /\ tasks[1].pc = "joined"
        /\ tasks[2].pc = "joined"
        /\ Len(listeners) = 3
        /\ \E k \in 1..Len(invoked) : invoked[k].task = 1
        /\ \E k \in 1..Len(invoked) : invoked[k].task = 2

\* C23: a call that finds the handle of a Dispatcher that has ended by
\* itself (Ok, Err or panic) drops that result and goes on; when it succeeds
\* the task it spawns is the only one alive, holds the whole registry and
\* the kinds of all its entries; sway writes every event of a registered
\* kind to that task's subscription, and the task invokes every entry of the
\* event's kind, the earlier ones included.
C23_RestartAfterOwnDeath ==
    [][/\ \A c \in Callers :
            /\ (pc[c] = "await_handle" /\ pc'[c] # "await_handle" /\ call[c].handle # 0
                  /\ tasks[call[c].handle].pc \in {"ok", "err", "panicked"}) =>
                   /\ pc'[c] = "connect"
                   /\ result'[c] = result[c]
                   /\ tasks'[call[c].handle].pc = "joined"
            /\ (pc[c] = "connect" /\ pc'[c] # "connect" /\ result'[c] = "Ok") =>
                   /\ join_handle' \notin {0, call[c].handle}
                   /\ tasks[join_handle'].pc = "unborn"
                   /\ tasks'[join_handle'].pc = "spawned"
                   /\ tasks'[join_handle'].listeners = listeners
                   /\ SeqToSet(tasks'[join_handle'].event_types) = RegistryKinds
                   /\ AliveTasks' = {join_handle'}
       /\ \A t \in TaskIds :
            /\ (tasks[t].pc = "reading" /\ ~tasks[t].closed /\ emitted' # emitted
                  /\ emitted'[Len(emitted')].variant \in RegistryKinds) =>
                   stream'[t] = Append(stream[t], emitted'[Len(emitted')])
            /\ (tasks[t].pc = "dispatch" /\ tasks'[t].pc = "reading") =>
                   \A i \in 1..Len(listeners) :
                       listeners[i].event_type = tasks[t].cur.variant =>
                           \E k \in (Len(invoked) + 1)..Len(invoked') :
                               invoked'[k] = [task |-> t, ev |-> tasks[t].cur.id,
                                              entry |-> i, ok |-> TRUE]
      ]_vars

\* The first Dispatcher died of a panicking callback on the first event; the
\* Dispatcher spawned by the second call has dispatched the second event to
\* the entry of the first call and to that of the second.
C23_Witness ==
    /\ Len(invoked) = 3
    /\ invoked[1].task = 1 /\ invoked[1].ev = 1 /\ ~invoked[1].ok
    /\ tasks[1].pc = "joined"
    /\ tasks[2].pc = "reading"
    /\ tasks[2].nreg = 2
    /\ join_handle = 2
    /\ Count(2, 2, 1) = 1
    /\ Count(2, 2, 2) = 1
    /\ \A c \in Callers : pc[c] = "idle"

-----------------------------------------------------------------------------
(* The two network state decisions *)

\* The ClientState that corresponds to a NetworkManagerState of the module.
ClientStateOf(state) ==
    CASE state = "Wired" -> "WiredConnected"
      [] state = "Wireless" -> "WifiConnected"
      [] state = "Cellular" -> "CellularConnected"
      [] state = "Vpn" -> "VpnConnected"
      [] state = "WirelessDisconnected" -> "WifiDisconnected"
      [] state = "Offline" -> "Offline"
      [] OTHER -> "Unknown"

\* C24: on the same primary connection path, primary connection type and
\* wireless-enabled flag, the module's get_network_state and the client's
\* determine_state give corresponding categories.
C24_SameCategory ==
    (net.out # None /\ net.module_out # None) => ClientStateOf(net.module_out) = net.out

====
